---- MODULE Spec2Model ----
(***************************************************************************)
(* scripts/gen-ts-data/gen-messages.py: the generator of the synthetic     *)
(* "messages" CSV.  The script is one straight-line program: it builds the *)
(* catalog of (channel, subtopic, publisher, name) tuples, computes the    *)
(* time grid, then writes one CSV row per (timestamp, tuple) pair.         *)
(*                                                                         *)
(* The model keeps the script's variables under their own names and has    *)
(* one action per loop head or statement.  What the script takes from its  *)
(* surroundings is state fixed by Init: the six configuration values, the  *)
(* time zone of the machine, the instant at which datetime.now() is read,  *)
(* the seed of the random module and the content messages.csv has before   *)
(* the run.  uuid4(), open(), write() and close() choose their outcome in  *)
(* the action that calls them.                                             *)
(*                                                                         *)
(* Python floats are IEEE doubles and the script's arithmetic on them is   *)
(* modelled bit for bit (section "doubles"), on naturals kept as sequences *)
(* of 15-bit limbs because the integers involved exceed 32 bits.           *)
(***************************************************************************)
EXTENDS Integers, Sequences, FiniteSets, TLC

\* the one element of a singleton set; binds an intermediate result to a value
Val(S) == CHOOSE v \in S : TRUE

(***************************************************************************)
(* Naturals of any size: little-endian sequences of limbs below Base, no   *)
(* leading zero limb, << >> for 0.                                         *)
(***************************************************************************)
Base == 2 ^ 15

RECURSIVE LNat(_)
LNat(n) == IF n = 0 THEN << >> ELSE <<n % Base>> \o LNat(n \div Base)

RECURSIVE LIntFrom(_, _)
LIntFrom(a, k) == IF k > Len(a) THEN 0 ELSE a[k] + Base * LIntFrom(a, k + 1)
\* the value of a, which must be below 2^31
LInt(a) == LIntFrom(a, 1)

RECURSIVE TopLimb(_, _)
TopLimb(a, k) == IF k = 0 THEN 0 ELSE IF a[k] # 0 THEN k ELSE TopLimb(a, k - 1)
LStrip(a) == SubSeq(a, 1, TopLimb(a, Len(a)))

Limb(a, k) == IF k <= Len(a) THEN a[k] ELSE 0

RECURSIVE LAddFrom(_, _, _, _)
LAddFrom(a, b, k, c) ==
    IF k > Len(a) /\ k > Len(b) THEN (IF c = 0 THEN << >> ELSE <<c>>)
    ELSE <<(Limb(a, k) + Limb(b, k) + c) % Base>>
         \o LAddFrom(a, b, k + 1, (Limb(a, k) + Limb(b, k) + c) \div Base)
LAdd(a, b) == Val({ LAddFrom(x, y, 1, 0) : x \in {a}, y \in {b} })

RECURSIVE LMulFrom(_, _, _, _)
LMulFrom(a, c, k, carry) ==
    IF k > Len(a) THEN (IF carry = 0 THEN << >> ELSE <<carry>>)
    ELSE <<(a[k] * c + carry) % Base>> \o LMulFrom(a, c, k + 1, (a[k] * c + carry) \div Base)
\* a * c for 0 <= c < Base
LMulSmall(a, c) == IF c = 0 THEN << >> ELSE Val({ LMulFrom(x, c, 1, 0) : x \in {a} })

\* a * c for 0 <= c < 2^31
RECURSIVE LMul(_, _)
LMul(a, c) == IF c = 0 THEN << >>
              ELSE Val({ LAdd(LMulSmall(a, c % Base), IF hi = << >> THEN hi ELSE <<0>> \o hi)
                         : hi \in {LMul(a, c \div Base)} })

RECURSIVE LDivFrom(_, _, _, _)
LDivFrom(a, d, k, r) ==
    IF k = 0 THEN [q |-> << >>, r |-> r]
    ELSE Val({ [q |-> Append(lo.q, (r * Base + a[k]) \div d), r |-> lo.r]
               : lo \in {LDivFrom(a, d, k - 1, (r * Base + a[k]) % d)} })
\* quotient and remainder of a by 0 < d < 2 * Base
LDivSmall(a, d) ==
    Val({ [q |-> LStrip(qr.q), r |-> qr.r] : qr \in { LDivFrom(x, d, Len(x), 0) : x \in {a} } })

\* a * 2^k
LShl(a, k) ==
    IF a = << >> THEN a
    ELSE Val({ [j \in 1..((k \div 15) + Len(x)) |->
                    IF j <= k \div 15 THEN 0 ELSE x[j - (k \div 15)]]
               : x \in {LMulSmall(a, 2 ^ (k % 15))} })

\* a \div 2^k, and whether a 1 bit was shifted out
LShr(a, k) ==
    Val({ Val({ [q |-> qr.q, lost |-> qr.r # 0 \/ \E j \in 1..(k \div 15) : Limb(x, j) # 0]
                : qr \in {LDivSmall(SubSeq(x, (k \div 15) + 1, Len(x)), 2 ^ (k % 15))} })
          : x \in {a} })

RECURSIVE IntLen(_)
IntLen(n) == IF n = 0 THEN 0 ELSE 1 + IntLen(n \div 2)
\* the number of bits of a
LBitLen(a) == IF a = << >> THEN 0 ELSE 15 * (Len(a) - 1) + IntLen(a[Len(a)])

RECURSIVE LCmpFrom(_, _, _)
LCmpFrom(a, b, k) == IF k = 0 THEN 0
                     ELSE IF Limb(a, k) < Limb(b, k) THEN -1
                     ELSE IF Limb(a, k) > Limb(b, k) THEN 1 ELSE LCmpFrom(a, b, k - 1)
\* -1, 0, 1 as a < b, a = b, a > b
LCmp(a, b) == Val({ LCmpFrom(x, y, IF Len(x) > Len(y) THEN Len(x) ELSE Len(y)) : x \in {a}, y \in {b} })
LLess(a, b) == LCmp(a, b) = -1

(***************************************************************************)
(* Doubles.  A non-negative double is [m, e], standing for m * 2^e, with m *)
(* a natural of exactly MantBits bits (or 0, with e = 0).  Every operation *)
(* computes the exact result and rounds it once, to nearest, ties to even, *)
(* as IEEE 754 arithmetic does.  No value of the script comes near the     *)
(* exponent limits, so overflow and subnormals are left out.               *)
(***************************************************************************)
MantBits == 53

Normal(m, e) == IF m = << >> THEN [m |-> m, e |-> 0]
                ELSE [m |-> LShl(m, MantBits - LBitLen(m)), e |-> e - (MantBits - LBitLen(m))]

\* the double nearest to a * 2^e, or to a * 2^e plus a fraction of 2^e when sticky
Round(a, sticky, e) ==
    Val({ IF LBitLen(x) <= MantBits THEN Normal(x, e)
          ELSE Val({ Val({ Normal(IF h.q[1] % 2 = 1 /\ (h.lost \/ sticky \/ s.q[1] % 2 = 1)
                                  THEN LAdd(s.q, <<1>>) ELSE s.q,
                                  e + LBitLen(x) - MantBits)
                           : s \in {LShr(h.q, 1)} })
                     : h \in {LShr(x, LBitLen(x) - MantBits - 1)} })
          : x \in {a} })

\* long division of r / b continued for n more digits of c bits each
RECURSIVE QuotDigits(_, _, _, _, _)
QuotDigits(r, b, c, n, acc) ==
    IF n = 0 THEN [q |-> acc, r |-> r]
    ELSE Val({ QuotDigits((r * 2 ^ c) % b, b, c, n - 1, nacc)
               : nacc \in {LAdd(LShl(acc, c), LNat((r * 2 ^ c) \div b))} })

DigitBits(b) == IF 31 - IntLen(b) > 15 THEN 15 ELSE 31 - IntLen(b)
DigitCount(b) == (MantBits + 1 + IntLen(b) + DigitBits(b) - 1) \div DigitBits(b)

\* a / b of two Python ints (true division: the exact quotient, rounded once),
\* for 0 <= a < 2^31 and 0 < b < 2^21
IntDiv(a, b) ==
    IF a = 0 THEN Normal(<< >>, 0)
    ELSE Val({ Round(qr.q, qr.r # 0, -(DigitBits(b) * DigitCount(b)))
               : qr \in {QuotDigits(a % b, b, DigitBits(b), DigitCount(b), LNat(a \div b))} })

\* n + f for an int 0 <= n < 2^31 and a double f >= 0
AddInt(n, f) ==
    Val({ IF g.m = << >> THEN Round(LNat(n), FALSE, 0)
          ELSE IF g.e >= 0 THEN Round(LAdd(LNat(n), LShl(g.m, g.e)), FALSE, 0)
          ELSE Round(LAdd(LShl(LNat(n), -g.e), g.m), FALSE, g.e)
          : g \in {f} })

\* f * c for a double f >= 0 and an int 0 <= c < 2^31
MulInt(f, c) == Val({ Round(LMul(g.m, c), FALSE, g.e) : g \in {f} })

\* int(f): the integer part of a double f >= 0, as a natural
Trunc(f) == Val({ IF g.e >= 0 THEN LShl(g.m, g.e) ELSE LShr(g.m, -g.e).q : g \in {f} })

\* f < n for a double f >= 0 and an int n >= 0
LessInt(f, n) ==
    Val({ IF g.e >= 0 THEN LLess(LShl(g.m, g.e), LNat(n)) ELSE LLess(g.m, LShl(LNat(n), -g.e))
          : g \in {f} })


(***************************************************************************)
(* Wall-clock time.  A naive datetime is [s, us]: the seconds its calendar *)
(* fields are past 1970-01-01 00:00:00 read as if they were UTC, and its   *)
(* microsecond field.  Adding a timedelta of whole days or minutes adds to *)
(* s and is exact.                                                         *)
(***************************************************************************)
Zones == {"UTC", "Europe/Belgrade"}

\* tm_gmtoff of localtime(u): seconds east of UTC at the POSIX time u.  Belgrade is the
\* rule of 2026: CEST from 2026-03-29 01:00 UTC until 2026-10-25 01:00 UTC, CET around
\* it (right from 2025-10-26 to 2027-03-28, which covers every instant of the model).
UtcOffset(zone, u) ==
    IF zone = "UTC" THEN 0
    ELSE IF u >= 1774746000 /\ u < 1792890000 THEN 7200 ELSE 3600

\* local(u) of CPython's local_to_seconds: the wall-clock seconds shown at POSIX time u
Local(zone, u) == u + UtcOffset(zone, u)

\* datetime.now() read at the POSIX instant c = [s, us]
Now(zone, c) == [s |-> Local(zone, c.s), us |-> c.us]

\* CPython's local_to_seconds for fold = 0 (what datetime arithmetic yields): the POSIX
\* seconds taken for the wall-clock seconds t.  max_fold_seconds is 24 * 3600.
Mktime(zone, t) ==
    LET a  == Local(zone, t) - t
        u1 == t - a
        t1 == Local(zone, u1)
        b  == IF t1 = t THEN Local(zone, u1 - 24 * 3600) - (u1 - 24 * 3600) ELSE t1 - u1
        u2 == t - b
    IN  IF t1 = t /\ a = b THEN u1
        ELSE IF Local(zone, u2) = t THEN u2
        ELSE IF t1 = t THEN u1
        ELSE IF u1 > u2 THEN u1 ELSE u2

\* datetime.timestamp() of a naive datetime: seconds + microsecond / 1e6, a double
Timestamp(zone, dt) == AddInt(Mktime(zone, dt.s), IntDiv(dt.us, 1000000))

\* int(timestamp.timestamp() * 1_000_000_000)
TimestampNs(zone, dt) == Trunc(MulInt(Timestamp(zone, dt), 1000000000))

\* what math.ceil in place of int would give: a partial interval counted as one
NumIntervalsCeil(days, minutes) == (days * 24 * 60 + minutes - 1) \div minutes

\* int((last_num_days * 24 * 60) / data_interval_minutes)
NumIntervals(days, minutes) == LInt(Trunc(IntDiv(days * 24 * 60, minutes)))

(***************************************************************************)
(* The random module.  genrand_res53 makes a double out of a 27-bit a and  *)
(* a 26-bit b; the generator is deterministic once seeded, so the model's  *)
(* generator walks a fixed cycle of (a, b) pairs from the seeded position. *)
(* The cycle holds the least and the greatest pair and some in between.    *)
(***************************************************************************)
Draws == << [a |-> 0, b |-> 0],
            [a |-> 2 ^ 27 - 1, b |-> 2 ^ 26 - 1],
            [a |-> 2 ^ 26, b |-> 0],
            [a |-> 12345678, b |-> 7654321] >>

\* a generator over the closed interval, whose greatest draw is 1.0
RandomClosed(d) ==
    IF d.a = 2 ^ 27 - 1 /\ d.b = 2 ^ 26 - 1 THEN Normal(<<1>>, 0)
    ELSE Normal(LAdd(LShl(LNat(d.a), 26), LNat(d.b)), -MantBits)

\* random.random(): (a * 67108864.0 + b) * (1.0 / 9007199254740992.0)
Random(d) == Normal(LAdd(LShl(LNat(d.a), 26), LNat(d.b)), -MantBits)

\* random.uniform(lo, hi) for ints 0 <= lo <= hi: lo + (hi - lo) * random()
Uniform(lo, hi, d) == AddInt(lo, MulInt(Random(d), hi - lo))

(***************************************************************************)
(* The state of the script.                                                *)
(***************************************************************************)
VARIABLES
    num_channels, num_subtopic, num_publisher, num_metrics,  \* lines 14-17
    last_num_days, data_interval_minutes,                    \* lines 18-19
    zone,          \* the machine's time zone
    clock,         \* the POSIX instant [s, us] at which line 46 reads datetime.now()
    rng,           \* position of the random module's generator in Draws
    issued,        \* uuid4 has returned the values 1 .. issued so far
    collided,      \* uuid4 has returned some value twice
    disk,          \* the lines of messages.csv
    pc,            \* the statement the script is at
    stdout,        \* what the script has printed
    rows, channel_idx, channel_id, subtopic_idx, publisher_idx, publisher_id, name_idx,
    start_time, num_intervals,
    f,             \* the file object: "unopened", "open" or "closed"
    i, timestamp, timestamp_ns, row_idx, value,
    written,       \* lines this run has written
    err            \* the exception that ended the run, "none" while there is none

config == <<num_channels, num_subtopic, num_publisher, num_metrics,
            last_num_days, data_interval_minutes>>
world  == <<zone, clock>>
loops  == <<channel_idx, channel_id, subtopic_idx, publisher_idx, publisher_id, name_idx>>
grid   == <<start_time, num_intervals>>
emit   == <<i, timestamp, timestamp_ns, row_idx, value>>
vars   == <<config, world, rng, issued, collided, disk, pc, stdout, rows, loops, grid,
            f, emit, written, err>>

\* the lines of the file: the header, and a data row
Header == [kind |-> "header",
           text |-> "time,channel,subtopic,publisher,protocol,name,unit,value"]

DataRow(ns, row, v) ==
    [kind |-> "row", time |-> ns, channel |-> row.channel, subtopic |-> row.subtopic,
     publisher |-> row.publisher, protocol |-> "mqtt", name |-> row.name, unit |-> "unit",
     value |-> v]

\* a metric name that does not follow the loop index
MetricNameOfSubtopic(idx) == <<"metric_", 1>>

\* f"subtopic_{subtopic_idx}" and f"metric_{name_idx}"
SubtopicName(idx) == <<"subtopic_", idx>>
MetricName(idx) == <<"metric_", idx>>

\* a dict whose publisher is the channel's identifier
EntityOfChannel(channel, subtopic, publisher, name) ==
    [channel |-> channel, subtopic |-> subtopic, publisher |-> channel, name |-> name]

\* the dict appended to rows at lines 37-42
Entity(channel, subtopic, publisher, name) ==
    [channel |-> channel, subtopic |-> subtopic, publisher |-> publisher, name |-> name]

\* whether a loop over range(1, n + 1) whose variable is at idx (0 before the first
\* pass) has another pass; range(n) is the same loop one lower
HasNext(idx, n) == idx < n

\* what uuid.uuid4() may return: a value never returned before (issued + 1 stands for
\* all of them) or one returned before.  Only the first repeat of a run is followed:
\* the values are 122 random bits and a run that has repeated one is already outside
\* what the spec's uniqueness assumption covers.
Uuid4(n, repeated) == {n + 1} \cup (IF repeated THEN {} ELSE 1..n)

\* open(path, 'a') on a file holding old: the content stays
OpenAppend(old) == old

\* open(path, 'w') on a file holding old: the content is dropped
OpenTruncate(old) == << >>

\* f = open(...) without the with block: nothing closes the file
WithoutExit(file) == file

\* leaving the with block, on the normal and on the exception path: f.close()
WithExit(file) == "closed"

\* where control goes when a statement at `at` raises: nothing catches it
OnError(at) == "failed"

\* a line a run before this one wrote (its identifiers are none of this run's)
StaleRow == DataRow(LNat(1), Entity(0, SubtopicName(1), 0, MetricName(1)), Normal(<< >>, 0))

(***************************************************************************)
(* Init: a run is fixed by a scenario, the values the script finds when it *)
(* starts.                                                                 *)
(***************************************************************************)
InitFrom(scenarios) ==
    \E sc \in scenarios :
        /\ num_channels = sc.shape[1] /\ num_subtopic = sc.shape[2]
        /\ num_publisher = sc.shape[3] /\ num_metrics = sc.shape[4]
        /\ last_num_days = sc.window[1] /\ data_interval_minutes = sc.window[2]
        /\ zone = sc.zone /\ clock = sc.clock /\ rng = sc.seed /\ disk = sc.old
        /\ issued = 0 /\ collided = FALSE
        /\ pc = "start" /\ stdout = << >> /\ rows = << >>
        /\ channel_idx = 0 /\ channel_id = 0 /\ subtopic_idx = 0
        /\ publisher_idx = 0 /\ publisher_id = 0 /\ name_idx = 0
        /\ start_time = [s |-> 0, us |-> 0] /\ num_intervals = 0
        /\ f = "unopened"
        /\ i = -1 /\ timestamp = [s |-> 0, us |-> 0] /\ timestamp_ns = << >>
        /\ row_idx = 0 /\ value = Normal(<< >>, 0)
        /\ written = 0 /\ err = "none"

(***************************************************************************)
(* The statements.                                                         *)
(***************************************************************************)
\* lines 24-28
PrintConfig ==
    /\ pc = "start"
    /\ stdout' = stdout \o << <<"channels", num_channels>>,
                              <<"subtopics (per channel)", num_subtopic>>,
                              <<"publishers (per subtopic)", num_publisher>>,
                              <<"names (per publisher)", num_metrics>> >>
    /\ rows' = << >>
    /\ pc' = "channel"
    /\ UNCHANGED <<config, world, rng, issued, collided, disk, loops, grid, f, emit, written, err>>

\* lines 29-30
ChannelLoop ==
    /\ pc = "channel"
    /\ IF HasNext(channel_idx, num_channels)
       THEN \E id \in Uuid4(issued, collided) :
                /\ channel_idx' = channel_idx + 1
                /\ channel_id' = id
                /\ issued' = IF id > issued THEN id ELSE issued
                /\ collided' = (collided \/ id <= issued)
                /\ subtopic_idx' = 0
                /\ pc' = "subtopic"
       ELSE /\ pc' = "grid"
            /\ UNCHANGED <<channel_idx, channel_id, issued, collided, subtopic_idx>>
    /\ UNCHANGED <<config, world, rng, disk, stdout, rows, publisher_idx, publisher_id,
                   name_idx, grid, f, emit, written, err>>

\* lines 31-32
SubtopicLoop ==
    /\ pc = "subtopic"
    /\ IF HasNext(subtopic_idx, num_subtopic)
       THEN /\ subtopic_idx' = subtopic_idx + 1
            /\ publisher_idx' = 0
            /\ pc' = "publisher"
       ELSE /\ pc' = "channel"
            /\ UNCHANGED <<subtopic_idx, publisher_idx>>
    /\ UNCHANGED <<config, world, rng, issued, collided, disk, stdout, rows, channel_idx,
                   channel_id, publisher_id, name_idx, grid, f, emit, written, err>>

\* lines 33-34
PublisherLoop ==
    /\ pc = "publisher"
    /\ IF HasNext(publisher_idx, num_publisher)
       THEN \E id \in Uuid4(issued, collided) :
                /\ publisher_idx' = publisher_idx + 1
                /\ publisher_id' = id
                /\ issued' = IF id > issued THEN id ELSE issued
                /\ collided' = (collided \/ id <= issued)
                /\ name_idx' = 0
                /\ pc' = "name"
       ELSE /\ pc' = "subtopic"
            /\ UNCHANGED <<publisher_idx, publisher_id, issued, collided, name_idx>>
    /\ UNCHANGED <<config, world, rng, disk, stdout, rows, channel_idx, channel_id,
                   subtopic_idx, grid, f, emit, written, err>>

\* lines 35-42
NameLoop ==
    /\ pc = "name"
    /\ IF HasNext(name_idx, num_metrics)
       THEN /\ name_idx' = name_idx + 1
            /\ rows' = Append(rows, Entity(channel_id, SubtopicName(subtopic_idx),
                                           publisher_id, MetricName(name_idx + 1)))
            /\ pc' = "name"
       ELSE /\ pc' = "publisher"
            /\ UNCHANGED <<name_idx, rows>>
    /\ UNCHANGED <<config, world, rng, issued, collided, disk, stdout, channel_idx,
                   channel_id, subtopic_idx, publisher_idx, publisher_id, grid, f, emit,
                   written, err>>

\* lines 44-54
TimeGrid ==
    /\ pc = "grid"
    /\ start_time' = [s |-> Now(zone, clock).s - last_num_days * 24 * 3600,
                      us |-> Now(zone, clock).us]
    /\ num_intervals' = NumIntervals(last_num_days, data_interval_minutes)
    /\ stdout' = stdout \o << <<"Total unique metric:", Len(rows)>>,
                              <<"generating data for last", last_num_days,
                                data_interval_minutes, num_intervals'>> >>
    /\ pc' = "open"
    /\ UNCHANGED <<config, world, rng, issued, collided, disk, rows, loops, f, emit,
                   written, err>>

\* line 58: open(data_file_path, 'w')
OpenSink ==
    /\ pc = "open"
    /\ \E ok \in BOOLEAN :
        IF ok THEN /\ f' = "open"
                   /\ disk' = OpenTruncate(disk)
                   /\ pc' = "header"
                   /\ err' = err
              ELSE /\ err' = "open"
                   /\ pc' = OnError("open")
                   /\ UNCHANGED <<f, disk>>
    /\ UNCHANGED <<config, world, rng, issued, collided, stdout, rows, loops, grid, emit,
                   written>>

\* line 59
WriteHeader ==
    /\ pc = "header"
    /\ \E ok \in BOOLEAN :
        IF ok THEN /\ disk' = Append(disk, Header)
                   /\ written' = written + 1
                   /\ pc' = "rows"
                   /\ UNCHANGED <<f, err>>
              ELSE /\ err' = "write"
                   /\ f' = WithExit(f)
                   /\ pc' = OnError("header")
                   /\ UNCHANGED <<disk, written>>
    /\ UNCHANGED <<config, world, rng, issued, collided, stdout, rows, loops, grid, emit>>

\* lines 61-63
TimestampLoop ==
    /\ pc = "rows"
    /\ IF HasNext(i + 1, num_intervals)
       THEN /\ i' = i + 1
            /\ timestamp' = [s |-> start_time.s + (i + 1) * (data_interval_minutes * 60),
                             us |-> start_time.us]
            /\ timestamp_ns' = TimestampNs(zone, timestamp')
            /\ row_idx' = 0
            /\ pc' = "row"
       ELSE /\ pc' = "close"
            /\ UNCHANGED <<i, timestamp, timestamp_ns, row_idx>>
    /\ UNCHANGED <<config, world, rng, issued, collided, disk, stdout, rows, loops, grid,
                   f, value, written, err>>

\* lines 64-66
RowLoop ==
    /\ pc = "row"
    /\ IF HasNext(row_idx, Len(rows))
       THEN /\ value' = Uniform(0, 100, Draws[rng])
            /\ rng' = (rng % Len(Draws)) + 1
            /\ \E ok \in BOOLEAN :
                IF ok THEN /\ disk' = Append(disk, DataRow(timestamp_ns, rows[row_idx + 1], value'))
                           /\ written' = written + 1
                           /\ row_idx' = row_idx + 1
                           /\ pc' = "row"
                           /\ UNCHANGED <<f, err>>
                      ELSE /\ err' = "write"
                           /\ f' = WithExit(f)
                           /\ pc' = OnError("row")
                           /\ UNCHANGED <<disk, written, row_idx>>
       ELSE /\ pc' = "rows"
            /\ UNCHANGED <<value, rng, disk, written, row_idx, f, err>>
    /\ UNCHANGED <<config, world, issued, collided, stdout, rows, loops, grid, i, timestamp,
                   timestamp_ns>>

\* the end of the with block on the normal path: f.close(), which flushes
CloseSink ==
    /\ pc = "close"
    /\ f' = WithExit(f)
    /\ \E ok \in BOOLEAN :
        IF ok THEN pc' = "summary" /\ err' = err
              ELSE pc' = OnError("close") /\ err' = "close"
    /\ UNCHANGED <<config, world, rng, issued, collided, disk, stdout, rows, loops, grid,
                   emit, written>>

\* line 68
Summary ==
    /\ pc = "summary"
    /\ stdout' = Append(stdout, <<"Finished writing CSV", Len(rows) * num_intervals,
                                  Len(rows), num_intervals>>)
    /\ pc' = "done"
    /\ UNCHANGED <<config, world, rng, issued, collided, disk, rows, loops, grid, f, emit,
                   written, err>>

Next ==
    \/ PrintConfig
    \/ ChannelLoop
    \/ SubtopicLoop
    \/ PublisherLoop
    \/ NameLoop
    \/ TimeGrid
    \/ OpenSink
    \/ WriteHeader
    \/ TimestampLoop
    \/ RowLoop
    \/ CloseSink
    \/ Summary

(***************************************************************************)
(* Scenarios.                                                              *)
(***************************************************************************)
MaxChannels == 2
MaxSubtopics == 2
MaxPublishers == 2
MaxMetrics == 2
MaxDays == 1
MinInterval == 60
MaxInterval == 1500

\* 2026-11-02 12:00:00.123457 UTC
Noon == [s |-> 1793620800, us |-> 123457]
\* 2026-03-29 03:05:00.000003 and 04:05:00.999999 in Belgrade, after the clocks went forward
AfterSpring == [s |-> 1774746300, us |-> 3]
LaterSpring == [s |-> 1774749900, us |-> 999999]
\* 2026-10-25 04:05:00.5 in Belgrade, after the clocks went back
AfterAutumn == [s |-> 1792897500, us |-> 500000]

OldFiles == {<< >>, <<Header>>, <<Header, StaleRow>>}

Scenario(shapes, windows, zones, clocks, seeds, olds) ==
    [shape : shapes, window : windows, zone : zones, clock : clocks, seed : seeds, old : olds]

\* whole runs of small catalogs, and day-long runs across the clock changes
Runs ==
    Scenario({<<1, 1, 1, 1>>, <<MaxChannels, 1, 1, MaxMetrics>>}, {<<0, 15>>, <<1, 360>>, <<1, 1000>>},
             Zones, {Noon}, 1..Len(Draws), OldFiles)
    \cup Scenario({<<1, 1, 1, 1>>}, {<<1, 45>>, <<1, 60>>}, {"Europe/Belgrade"},
                  {AfterSpring, LaterSpring, AfterAutumn}, {1}, {<< >>})

\* every catalog shape up to the bounds
Catalogs ==
    Scenario((1..MaxChannels) \X (1..MaxSubtopics) \X (1..MaxPublishers) \X (1..MaxMetrics),
             {<<0, 15>>}, {"UTC"}, {Noon}, {1}, {<< >>})
    \cup Scenario({<<1, 1, 1, 1>>}, {<<1, 1440>>}, {"UTC"}, {Noon}, {1}, {<< >>})

\* every window and interval up to the bounds
Grids ==
    Scenario({<<1, 1, 1, 1>>}, (0..MaxDays) \X (MinInterval..MaxInterval), {"UTC"}, {Noon},
             {1}, {<< >>})
    \cup Scenario({<<1, 1, 1, 1>>}, {<<1, 7>>, <<1, 15>>}, Zones, {Noon}, {1}, {<< >>})

Init == InitFrom(Runs)
Spec == Init /\ [][Next]_vars

InitCatalog == InitFrom(Catalogs)
SpecCatalog == InitCatalog /\ [][Next]_vars

InitGrid == InitFrom(Grids)
SpecGrid == InitGrid /\ [][Next]_vars

(***************************************************************************)
(* Properties.                                                             *)
(***************************************************************************)
\* the catalog is finished: control has left the loops of lines 29-42
CatalogDone == pc \notin {"start", "channel", "subtopic", "publisher", "name"}
\* line 48 has run
GridDone == CatalogDone /\ pc # "grid"
\* the script has opened the file, so every line of it is this run's
Opened == f # "unopened"

CatalogSize == num_channels * num_subtopic * num_publisher * num_metrics
Key(r) == <<r.channel, r.subtopic, r.publisher, r.name>>
\* the tuples of the catalog, the data rows of the file (line k + 1 is data row k)
Tuples == 1..Len(rows)
DataRows == 1..(Len(disk) - 1)
\* the first position of the block of b tuples that holds position j
BlockStart(j, b) == ((j - 1) \div b) * b + 1
\* I minutes in nanoseconds
StepNs == LMul(LNat(data_interval_minutes * 60), 1000000000)
\* the generation instant in nanoseconds, as timestamp() * 1e9 gives it for an aware now
NowNs == Trunc(MulInt(AddInt(clock.s, IntDiv(clock.us, 1000000)), 1000000000))
SummaryPrinted == stdout # << >> /\ stdout[Len(stdout)][1] = "Finished writing CSV"

\* C1: once the catalog is finished it holds exactly C*S*P*M tuples, and, when uuid4
\* has returned no value twice, no two tuples agree on (channel, subtopic, publisher,
\* name).
C1_CatalogSizeDistinct ==
    CatalogDone =>
        /\ Len(rows) = CatalogSize
        /\ ~collided => Cardinality({ Key(rows[j]) : j \in Tuples }) = Len(rows)

C1_Witness ==
    /\ pc = "grid" /\ ~collided
    /\ num_channels = MaxChannels /\ num_subtopic = MaxSubtopics
    /\ num_publisher = MaxPublishers /\ num_metrics = MaxMetrics
    /\ Len(rows) = MaxChannels * MaxSubtopics * MaxPublishers * MaxMetrics

\* C2: when uuid4 has returned no value twice, the finished catalog has exactly C
\* channel identifiers and exactly C*S*P publisher identifiers; every tuple carries the
\* channel identifier of the first tuple of its channel's block of S*P*M tuples and the
\* publisher identifier of the first tuple of its publisher's block of M tuples, so
\* with C*S*P identifiers over C*S*P blocks no identifier serves two blocks.
C2_IdentifierSharing ==
    (CatalogDone /\ ~collided) =>
        /\ Cardinality({ rows[j].channel : j \in Tuples }) = num_channels
        /\ Cardinality({ rows[j].publisher : j \in Tuples })
               = num_channels * num_subtopic * num_publisher
        /\ \A j \in Tuples :
            /\ rows[j].channel
                   = rows[BlockStart(j, num_subtopic * num_publisher * num_metrics)].channel
            /\ rows[j].publisher = rows[BlockStart(j, num_metrics)].publisher

C2_Witness ==
    /\ pc = "grid" /\ ~collided
    /\ num_channels = 2 /\ num_subtopic = 2 /\ num_publisher = 2 /\ num_metrics = 2
    /\ Cardinality({ rows[j].channel : j \in Tuples }) = 2
    /\ Cardinality({ rows[j].publisher : j \in Tuples }) = 8
    /\ rows[1].publisher = rows[2].publisher /\ rows[2].publisher # rows[3].publisher

\* C3: the number of timestamps is floor(W * 1440 / I).
C3_TimestampCount ==
    GridDone => num_intervals = (last_num_days * 1440) \div data_interval_minutes

\* a window that is no multiple of the interval: the partial interval is dropped
C3_Witness ==
    /\ GridDone
    /\ (last_num_days * 1440) % data_interval_minutes # 0
    /\ num_intervals >= 1
    /\ num_intervals * data_interval_minutes < last_num_days * 1440

\* C4: each timestamp after the first is greater than the one before it, by exactly
\* I * 60 * 10^9 nanoseconds.
C4_RegularGrid ==
    [][(pc = "rows" /\ pc' = "row" /\ i >= 0) =>
          /\ LLess(timestamp_ns, timestamp_ns')
          /\ timestamp_ns' = LAdd(timestamp_ns, StepNs)]_vars

\* C5: a run that completes has written (catalog size) * (timestamp count) data rows,
\* the number its summary reports, and every time value of the file is in exactly
\* (catalog size) rows.
C5_RowCount ==
    pc = "done" =>
        /\ Len(disk) - 1 = Len(rows) * num_intervals
        /\ stdout[Len(stdout)][2] = Len(disk) - 1
        /\ \A k \in DataRows :
               Cardinality({ j \in DataRows : disk[j + 1].time = disk[k + 1].time })
                   = Len(rows)

\* C6: data row k (from 0) carries the tuple at catalog position k mod |catalog| and
\* the time of its group k div |catalog|, the rows of a group carry one time, and the
\* time column never decreases from one row to the next.
C6_TimestampMajor ==
    Opened =>
        \A k \in DataRows :
            /\ Key(disk[k + 1]) = Key(rows[((k - 1) % Len(rows)) + 1])
            /\ disk[k + 1].time = disk[BlockStart(k, Len(rows)) + 1].time
            /\ (k - 1) \div Len(rows) = i => disk[k + 1].time = timestamp_ns
            /\ k > 1 => ~LLess(disk[k + 1].time, disk[k].time)

\* C7: whenever the file is non-empty its first line is the header and no later line
\* is one, and a finished run of 0 timestamps leaves the header alone.
C7_HeaderFirstOnce ==
    /\ disk # << >> => disk[1].kind = "header"
    /\ \A k \in 2..Len(disk) : disk[k].kind = "row"
    /\ Opened /\ written > 0 => Len(disk) = written
    /\ (pc = "done" /\ num_intervals = 0) => (Len(disk) = 1 /\ written = 1)

\* a finished run of one timestamp over four tuples: the header, then the rows
C7_Witness ==
    /\ pc = "done" /\ written = 5 /\ Len(disk) = 5
    /\ disk[1] = Header /\ disk[2].kind = "row"

\* C8: the value of every data row is at least 0 and less than 100.  (A double of the
\* model is m * 2^e with m a natural, so it is at least 0; str() of a float and float()
\* of the result give the float back, so the column holds the value sampled.)
C8_ValueRange ==
    /\ LessInt(value, 100)
    /\ Opened => \A k \in DataRows : LessInt(disk[k + 1].value, 100)

\* the greatest double random() returns has been sampled and written
C8_Witness ==
    /\ Opened
    /\ \E k \in DataRows : disk[k + 1].value = Uniform(0, 100, Draws[2])
    /\ ~LessInt(Uniform(0, 100, Draws[2]), 99)

\* C9: once open or a write has failed the script is over: nothing more is sampled,
\* written or printed, the summary is not printed, and the file, if it was opened, is
\* closed, as it is after every run; and a run that opens the file leaves in it only
\* the lines it wrote itself.
C9_AbortOnFailure ==
    /\ [](/\ err # "none" => (pc = "failed" /\ ~SummaryPrinted)
          /\ pc \in {"failed", "summary", "done"} => f # "open"
          /\ (err = "open") = (pc = "failed" /\ f = "unopened")
          /\ Opened => (Len(disk) = written /\ \A k \in DataRows : disk[k + 1] # StaleRow))
    /\ [][err # "none" => UNCHANGED vars]_vars

\* a data row's write failed over a file that held this run's header and a row
C9_Witness ==
    /\ err = "write" /\ pc = "failed" /\ f = "closed"
    /\ Len(disk) >= 2 /\ written = Len(disk)

\* C10: the first timestamp is the one of start_time, the generation instant less W
\* days on the wall clock, and every timestamp is earlier than the generation instant.
C10_InsideWindow ==
    (pc = "row" /\ i >= 0) =>
        /\ i = 0 => /\ timestamp = start_time
                    /\ start_time.s + last_num_days * 86400 = Now(zone, clock).s
                    /\ start_time.us = clock.us
        /\ LLess(timestamp_ns, NowNs)
====
